---- MODULE Spec2Model ----
(***************************************************************************)
(* hardcore/stack.hpp: walking the frame-pointer chain of the current      *)
(* stack.  The model keeps the machine integers of the code at a reduced   *)
(* width (Bits), the stack memory as the link records the walk has read,   *)
(* the process-wide cache of the stack size limit (the function-local      *)
(* static of stack::max_size) and the cursor objects of a caller.          *)
(***************************************************************************)
EXTENDS Integers, Sequences, FiniteSets, TLC

\* ---------------------------------------------------------------- bounds
\* width in bits of size_t, ptrdiff_t and of a pointer
Bits == 3
\* instruction pointer values are 0 (nullptr) .. MaxIp
MaxIp == 1
\* largest k given to operator+= and operator+
MaxK == 2
\* the counter of getrlimit queries saturates here
MaxCount == 2
\* threads calling max_size concurrently
NumThreads == 2
\* a failing sink throws after at most MaxFail writes
MaxFail == 1

\* ------------------------------------------------------- machine integers
WordSize == 2 ^ Bits
Word == 0 .. (WordSize - 1)
\* (ptrdiff_t) w : the two's complement reading of a word
ToSigned(w) == IF w >= WordSize \div 2 THEN w - WordSize ELSE w
\* - x on ptrdiff_t, as the negation instruction computes it
Neg(x) == ToSigned((0 - x) % WordSize)
\* RLIM_INFINITY: all bits set
RlimInfinity == WordSize - 1
\* the soft limits of RLIMIT_STACK the environment sets
RlimValues == {0, 2, RlimInfinity}

\* extern void* __libc_stack_end
StackEnd == 5

Ip == 0 .. MaxIp
\* struct link { link* up; fun_ptr_t ret; }
Link == [up : Word, ret : Ip]
\* a cell of stack memory the walk has not read yet
Unread == [up |-> -1, ret |-> -1]
\* struct type { fp_type fp; ip_type ip; }
Type == [fp : Word, ip : Ip]
\* constexpr iterator() : type{nullptr, nullptr}
iterator == [fp |-> 0, ip |-> 0]

VARIABLES
  rlim_cur,         \* the soft limit of RLIMIT_STACK in the kernel
  getrlimit_fails,  \* whether getrlimit fails in this process
  stack_size,       \* static size_t stack_size of max_size
  halted,           \* the process has exited (assert / exit(1))
  mem,              \* stack memory: the link record at each address read so far
  rd,               \* addresses of the link records read by the last operation
  log,              \* its validator verdicts and link reads, in the order made
  queries,          \* getrlimit calls made so far (saturating)
  first,            \* value returned by the first max_size call, -1 before it
  last,             \* value returned by the latest max_size call, -1 before it
  handle,           \* the hc::stack object: the captured (fp, ip)
  it,               \* a cursor walking the handle's chain
  cp,               \* a second cursor object
  res,              \* the iterator returned by the last operation
  out,              \* the descriptor returned by the last operator*
  ipout,            \* the address returned by the last operator* of the ip view
  vret,             \* the result of the last is_valid_frame call
  op,               \* the last operation
  arg,              \* its integer argument
  pre,              \* the cursor the last operation was applied to, before it
  trail,            \* positions of it since the last begin()
  prevWalk,         \* the longest trail of an earlier walk
  pc,               \* per thread: position in max_size
  rl,               \* per thread: the value held in a register
  tret,             \* per thread: value max_size returned, -1 before
  writes,           \* values stored to stack_size by the threads
  early,            \* threads that entered max_size before any call returned
  seen,             \* an earlier is_valid_frame call kept for comparison: <<p, result>>
  flags,            \* the format flags of the output stream
  flagsBefore,      \* its flags at the last flags(f), or at entry of the last operator<<
  text,             \* the characters the last operator<< wrote
  thrown            \* the last operator<< left by an exception

vars == <<rlim_cur, getrlimit_fails, stack_size, halted, mem, rd, log,
          queries,
          first, last, handle, it, cp, res, out, ipout, vret, op, arg,
          pre, trail, prevWalk, pc, rl, tret, writes, early, seen,
          flags, flagsBefore, text, thrown>>

cursorVars == <<handle, it, cp, res, out, ipout, vret, op, arg, pre, trail,
                prevWalk>>
threadVars == <<pc, rl, tret, writes, early>>
streamVars == <<flags, flagsBefore, text, thrown>>

\* --------------------------------------------------- the process state
\* the part of the state a call reads and writes, threaded through the calls
PS == [stack_size |-> stack_size, halted |-> halted, mem |-> mem, rd |-> {},
       log |-> <<>>,
       queries |-> queries, first |-> first, last |-> last]

Commit(ps) ==
  /\ stack_size' = ps.stack_size
  /\ halted' = ps.halted
  /\ mem' = ps.mem
  /\ rd' = ps.rd
  /\ log' = ps.log
  /\ queries' = ps.queries
  /\ first' = ps.first
  /\ last' = ps.last

Bump(n) == IF n < MaxCount THEN n + 1 ELSE n

\* the operation made a step: a verdict v of the validator on address a, or
\* a read of the link record at a; nothing is recorded once the process exits
Logged(ps, e, a, v) ==
  IF ps.halted THEN ps
  ELSE [ps EXCEPT !.log = Append(@, [e |-> e, a |-> a, v |-> v])]

\* max_size returns v
Returned(ps, v) ==
  [ps EXCEPT !.first = IF ps.first = -1 THEN v ELSE @, !.last = v]

max_size_ignores_failure(ps) ==
  IF ps.stack_size = 0
  THEN LET v == IF getrlimit_fails THEN 0 ELSE rlim_cur IN
         <<Returned([ps EXCEPT !.queries = Bump(@), !.stack_size = v], v), v>>
  ELSE <<Returned(ps, ps.stack_size), ps.stack_size>>

\* static size_t max_size(): <<process state after the call, value returned>>;
\* when the process halts nothing is returned
max_size(ps) ==
  IF ps.stack_size = 0
  THEN IF getrlimit_fails
       THEN <<[ps EXCEPT !.queries = Bump(@), !.halted = TRUE], 0>>
       ELSE <<Returned([ps EXCEPT !.queries = Bump(@),
                                  !.stack_size = rlim_cur], rlim_cur),
              rlim_cur>>
  ELSE <<Returned(ps, ps.stack_size), ps.stack_size>>

\* static ptrdiff_t frame_offset(fp): (char*)fp - (char*)__libc_stack_end,
\* the difference as the subtraction instruction leaves it in a ptrdiff_t
frame_offset(fp) == ToSigned((fp - StackEnd) % WordSize)

is_valid_frame_no_lower_bound(frame, ps) ==
  LET fo == frame_offset(frame) IN
    IF fo <= 0
    THEN LET m == max_size(ps) IN
           <<Logged(m[1], "valid", frame, TRUE), TRUE>>
    ELSE <<Logged(ps, "valid", frame, FALSE), FALSE>>

\* static bool is_valid_frame(frame): <<process state after, result>>;
\* max_size is called only when fo <= 0 (&& short-circuits)
is_valid_frame(frame, ps) ==
  LET fo == frame_offset(frame) IN
    IF fo <= 0
    THEN LET m == max_size(ps)
             v == fo >= Neg(ToSigned(m[2]))
         IN <<Logged(m[1], "valid", frame, v), v>>
    ELSE <<Logged(ps, "valid", frame, FALSE), FALSE>>

\* reading the link record at address a: <<process state after, record>>
Load(ps, a) ==
  IF ps.mem[a] # Unread
  THEN {<<Logged([ps EXCEPT !.rd = @ \cup {a}], "read", a, TRUE), ps.mem[a]>>}
  ELSE {<<Logged([ps EXCEPT !.rd = @ \cup {a}, !.mem[a] = l], "read", a, TRUE),
          l>> : l \in Link}

\* a parent at the same or a lower address: fp->up <= fp, pointers compared
\* as addresses
parent_not_above_strict(up, fp) == up < fp

parent_not_above_never(up, fp) == FALSE

parent_not_above(up, fp) == up <= fp

follow_keeps_ip(c, ps) ==
  LET v1 == is_valid_frame(c.fp, ps) IN
    IF v1[1].halted THEN {<<v1[1], c>>}
    ELSE IF ~v1[2] THEN {<<v1[1], iterator>>}
    ELSE UNION {
      LET l == ld[2]
          v2 == is_valid_frame(l.up, ld[1]) IN
        IF v2[1].halted THEN {<<v2[1], c>>}
        ELSE IF ~v2[2] \/ parent_not_above(l.up, c.fp) THEN {<<v2[1], iterator>>}
        ELSE {<<v2[1], [fp |-> l.up, ip |-> c.ip]>>}
      : ld \in Load(v1[1], c.fp)}

follow_reads_first(c, ps) ==
  UNION {
    LET l == ld[2]
        v1 == is_valid_frame(c.fp, ld[1]) IN
      IF v1[1].halted THEN {<<v1[1], c>>}
      ELSE IF ~v1[2] THEN {<<v1[1], iterator>>}
      ELSE LET v2 == is_valid_frame(l.up, v1[1]) IN
        IF v2[1].halted THEN {<<v2[1], c>>}
        ELSE IF ~v2[2] \/ parent_not_above(l.up, c.fp) THEN {<<v2[1], iterator>>}
        ELSE {<<v2[1], [fp |-> l.up, ip |-> l.ret]>>}
    : ld \in Load(ps, c.fp)}

\* operator++ on a cursor whose fp is not null: the checks of the default
\* build in their order, then either end() or the parent frame; the set of
\* <<process state after, cursor after>>
follow(c, ps) ==
  LET v1 == is_valid_frame(c.fp, ps) IN
    IF v1[1].halted THEN {<<v1[1], c>>}
    ELSE IF ~v1[2] THEN {<<v1[1], iterator>>}
    ELSE UNION {
      LET l == ld[2]
          v2 == is_valid_frame(l.up, ld[1]) IN
        IF v2[1].halted THEN {<<v2[1], c>>}
        ELSE IF ~v2[2] \/ parent_not_above(l.up, c.fp) THEN {<<v2[1], iterator>>}
        ELSE {<<v2[1], [fp |-> l.up, ip |-> l.ret]>>}
      : ld \in Load(v1[1], c.fp)}

operator_inc_keeps_ip(c, ps) ==
  IF c.fp = 0 THEN {<<ps, c>>} ELSE follow(c, ps)

\* iterator& operator++(), default build
operator_inc(c, ps) ==
  IF c.fp = 0 THEN {<<ps, [c EXCEPT !.ip = 0]>>} ELSE follow(c, ps)

operator_inc_skip_with_parent_checks(c, ps) ==
  IF c.fp = 0 THEN {<<ps, [c EXCEPT !.ip = 0]>>} ELSE follow(c, ps)

\* iterator& operator++() built with SKIP_STACK_INTEGRITY_CHECK: the one
\* check is is_valid_frame(fp)
operator_inc_skip(c, ps) ==
  IF c.fp = 0 THEN {<<ps, [c EXCEPT !.ip = 0]>>}
  ELSE LET v1 == is_valid_frame(c.fp, ps) IN
    IF v1[1].halted THEN {<<v1[1], c>>}
    ELSE IF ~v1[2] THEN {<<v1[1], iterator>>}
    ELSE {<<ld[1], [fp |-> ld[2].up, ip |-> ld[2].ret]>>
          : ld \in Load(v1[1], c.fp)}

\* ----------------------------------------------------------------- Init
Init ==
  /\ rlim_cur \in RlimValues
  /\ getrlimit_fails \in BOOLEAN
  /\ stack_size = 0
  /\ halted = FALSE
  /\ mem = [a \in Word |-> Unread]
  /\ rd = {}
  /\ log = <<>>
  /\ queries = 0
  /\ first = -1
  /\ last = -1
  /\ handle \in Type
  /\ it = handle
  /\ cp = iterator
  /\ res = iterator
  /\ out = iterator
  /\ ipout = 0
  /\ vret = FALSE
  /\ op = "init"
  /\ arg = 0
  /\ pre = iterator
  /\ trail = <<handle>>
  /\ prevWalk = <<>>
  /\ pc = [t \in 1 .. NumThreads |-> "start"]
  /\ rl = [t \in 1 .. NumThreads |-> 0]
  /\ tret = [t \in 1 .. NumThreads |-> -1]
  /\ writes = {}
  /\ early = {}
  /\ seen = <<>>
  /\ flags = {"skipws", "dec"}
  /\ flagsBefore = {"skipws", "dec"}
  /\ text = <<>>
  /\ thrown = FALSE

\* what the last operation was, and what it returned
Ghost(o, a, c) ==
  /\ op' = o
  /\ arg' = a
  /\ pre' = c

Returns(r, d, i, v) ==
  /\ res' = r
  /\ out' = d
  /\ ipout' = i
  /\ vret' = v

NoReturn == Returns(iterator, iterator, 0, FALSE)

\* ------------------------------------------------- the cursor's operations
\* bool operator==(const iterator& o) const
operator_eq(a, b) == a.fp = b.fp /\ a.ip = b.ip

\* bool operator!=(const iterator& o) const
operator_ne(a, b) == ~operator_eq(a, b)

\* bool is_end() const
is_end(c) == c.fp = 0

\* reference operator*() const of iterator<stack_::type>: the descriptor by value
operator_deref(c) == [fp |-> c.fp, ip |-> c.ip]

\* reference operator*() const of iterator<ip_type>: type::operator ip_type
operator_deref_ip(c) == c.ip

\* reference top() const: the captured descriptor by value
top(h) == [fp |-> h.fp, ip |-> h.ip]

\* iterator begin() const / cbegin() const / ip_begin() const
begin(h) == top(h)

end_is_top == [fp |-> handle.fp, ip |-> handle.ip]

\* static iterator end() / cend() / ip_end()
end == iterator

operator_post_inc_returns_this(c, ps) ==
  {<<r[1], r[2], r[2]>> : r \in operator_inc(c, ps)}

\* iterator operator++(int): <<process state after, *this after, copy returned>>
operator_post_inc(c, ps) == {<<r[1], r[2], c>> : r \in operator_inc(c, ps)}

RECURSIVE advance_pre_decrement(_, _, _)
advance_pre_decrement(c, n, ps) ==
  IF n <= 1
  THEN {<<ps, c>>}
  ELSE UNION {IF r[1].halted THEN {r}
              ELSE advance_pre_decrement(r[2], n - 1, r[1])
              : r \in operator_inc(c, ps)}

\* std::advance(*this, k) of a forward iterator: while (n--) ++i
RECURSIVE advance(_, _, _)
advance(c, n, ps) ==
  IF n = 0
  THEN {<<ps, c>>}
  ELSE UNION {IF r[1].halted THEN {r} ELSE advance(r[2], n - 1, r[1])
              : r \in operator_inc(c, ps)}

\* iterator& operator+=(size_t k): <<process state after, *this after>>
operator_add_assign(c, k, ps) == advance(c, k, ps)

\* iterator operator+(size_t k): <<process state after, *this after, result>>
operator_plus(c, k, ps) ==
  {<<r[1], c, r[2]>> : r \in operator_add_assign(c, k, ps)}

\* whether address a is in the memory of the stack: a read of fp->ret,
\* fp->up made with no check of fp is defined there and nowhere else
InStack(a) == a # 0 /\ StackEnd - rlim_cur <= a /\ a <= StackEnd

\* the outcomes of advance_unchecked once it has read through a null
\* pointer or a pointer out of the stack (undefined behaviour): the process
\* is killed, or the cursor ends with some value
Wild(c, ps) ==
  {<<[ps EXCEPT !.halted = TRUE], c>>}
  \cup {<<Logged([ps EXCEPT !.rd = @ \cup {c.fp}], "read", c.fp, TRUE), g>>
        : g \in Type}

RECURSIVE advance_unchecked_keeps_ip(_, _, _)
advance_unchecked_keeps_ip(c, k, ps) ==
  IF k = 0 THEN {<<ps, c>>}
  ELSE IF ~InStack(c.fp) THEN Wild(c, ps)
  ELSE UNION {advance_unchecked_keeps_ip([fp |-> ld[2].up, ip |-> c.ip],
                                         k - 1, ld[1])
              : ld \in Load(ps, c.fp)}

\* iterator& advance_unchecked(size_t k): <<process state after, *this after>>
RECURSIVE advance_unchecked(_, _, _)
advance_unchecked(c, k, ps) ==
  IF k = 0 THEN {<<ps, c>>}
  ELSE IF ~InStack(c.fp) THEN Wild(c, ps)
  ELSE UNION {advance_unchecked([fp |-> ld[2].up, ip |-> ld[2].ret],
                                k - 1, ld[1])
              : ld \in Load(ps, c.fp)}

\* --------------------------------------------------------------- actions
OpName(ps, name) == IF ps.halted THEN "exit" ELSE name

envVars == <<rlim_cur, getrlimit_fails, handle>>
cacheVars == <<stack_size, halted, mem, queries, first, last>>
walkVars == <<it, trail, prevWalk>>

\* it = handle.begin()
Begin ==
  /\ ~halted
  /\ it' = begin(handle)
  /\ trail' = <<begin(handle)>>
  /\ prevWalk' = IF Len(trail) >= Len(prevWalk) THEN trail ELSE prevWalk
  /\ Ghost("begin", 0, iterator)
  /\ NoReturn
  /\ rd' = {}
  /\ log' = <<>>
  /\ UNCHANGED <<seen, streamVars, envVars, cacheVars, threadVars, cp>>

\* ++it
Inc ==
  /\ ~halted
  /\ \E r \in operator_inc(it, PS) :
       /\ Commit(r[1])
       /\ it' = r[2]
       /\ Ghost(OpName(r[1], "inc"), 0, it)
       /\ trail' = IF r[1].halted \/ trail[Len(trail)] = iterator
                      \/ Len(trail) > WordSize
                   THEN trail ELSE Append(trail, r[2])
  /\ NoReturn
  /\ UNCHANGED <<seen, streamVars, envVars, threadVars, cp, prevWalk>>

\* ++it in a build with SKIP_STACK_INTEGRITY_CHECK
IncSkip ==
  /\ ~halted
  /\ \E r \in operator_inc_skip(it, PS) :
       /\ Commit(r[1])
       /\ it' = r[2]
       /\ Ghost(OpName(r[1], "inc"), 0, it)
       /\ trail' = IF r[1].halted \/ trail[Len(trail)] = iterator
                      \/ Len(trail) > WordSize
                   THEN trail ELSE Append(trail, r[2])
  /\ NoReturn
  /\ UNCHANGED <<seen, streamVars, envVars, threadVars, cp, prevWalk>>

\* cp = it
Copy ==
  /\ ~halted
  /\ cp' = it
  /\ Ghost("copy", 0, it)
  /\ NoReturn
  /\ rd' = {}
  /\ log' = <<>>
  /\ UNCHANGED <<seen, streamVars, envVars, cacheVars, threadVars, walkVars>>

\* res = cp++
PostInc ==
  /\ ~halted
  /\ \E r \in operator_post_inc(cp, PS) :
       /\ Commit(r[1])
       /\ cp' = r[2]
       /\ Returns(IF r[1].halted THEN iterator ELSE r[3], iterator, 0, FALSE)
       /\ Ghost(OpName(r[1], "postinc"), 0, cp)
  /\ UNCHANGED <<seen, streamVars, envVars, threadVars, walkVars>>

\* cp += k
AddAssign ==
  /\ ~halted
  /\ \E k \in 0 .. MaxK : \E r \in operator_add_assign(cp, k, PS) :
       /\ Commit(r[1])
       /\ cp' = r[2]
       /\ Ghost(OpName(r[1], "addassign"), k, cp)
  /\ NoReturn
  /\ UNCHANGED <<seen, streamVars, envVars, threadVars, walkVars>>

\* cp.advance_unchecked(k) on a fresh copy of the handle's cursor
AdvanceUnchecked ==
  /\ ~halted
  /\ op = "copy"
  /\ \E k \in 0 .. MaxK : \E r \in advance_unchecked(cp, k, PS) :
       /\ Commit(r[1])
       /\ cp' = r[2]
       /\ Ghost(OpName(r[1], "advance_unchecked"), k, cp)
  /\ NoReturn
  /\ UNCHANGED <<seen, streamVars, envVars, threadVars, walkVars>>

\* res = cp + k
Plus ==
  /\ ~halted
  /\ \E k \in 0 .. MaxK : \E r \in operator_plus(cp, k, PS) :
       /\ Commit(r[1])
       /\ cp' = r[2]
       /\ Returns(IF r[1].halted THEN iterator ELSE r[3], iterator, 0, FALSE)
       /\ Ghost(OpName(r[1], "plus"), k, cp)
  /\ UNCHANGED <<seen, streamVars, envVars, threadVars, walkVars>>

\* res = stack::end(); out = *res; ipout = *stack::ip_end()
End ==
  /\ ~halted
  /\ Returns(end, operator_deref(end), operator_deref_ip(end), FALSE)
  /\ Ghost("end", 0, iterator)
  /\ rd' = {}
  /\ log' = <<>>
  /\ UNCHANGED <<seen, streamVars, envVars, cacheVars, threadVars, walkVars, cp>>

\* out = *cp; ipout = *cp with cp taken as an ip_iterator
Deref ==
  /\ ~halted
  /\ Returns(iterator, operator_deref(cp), operator_deref_ip(cp), FALSE)
  /\ Ghost("deref", 0, cp)
  /\ rd' = {}
  /\ log' = <<>>
  /\ UNCHANGED <<seen, streamVars, envVars, cacheVars, threadVars, walkVars, cp>>

\* stack::max_size()
MaxSize ==
  /\ ~halted
  /\ LET m == max_size(PS) IN
       /\ Commit(m[1])
       /\ Ghost(OpName(m[1], "max_size"), 0, iterator)
  /\ NoReturn
  /\ UNCHANGED <<seen, streamVars, envVars, threadVars, walkVars, cp>>

\* vret = stack::is_valid_frame(p)
IsValidFrame ==
  /\ ~halted
  /\ \E p \in Word :
       LET v == is_valid_frame(p, PS) IN
         /\ Commit(v[1])
         /\ Returns(iterator, iterator, 0, IF v[1].halted THEN FALSE ELSE v[2])
         /\ Ghost(OpName(v[1], "is_valid_frame"), p, iterator)
         /\ \E keep \in BOOLEAN :
              seen' = IF keep /\ seen = <<>> /\ ~v[1].halted
                      THEN <<p, v[2]>> ELSE seen
  /\ UNCHANGED <<streamVars, envVars, threadVars, walkVars, cp>>

\* setrlimit(RLIMIT_STACK, ...) by the environment
SetRlimit ==
  /\ ~halted
  /\ \E v \in RlimValues \ {rlim_cur} : rlim_cur' = v
  /\ Ghost("setrlimit", 0, iterator)
  /\ NoReturn
  /\ rd' = {}
  /\ log' = <<>>
  /\ UNCHANGED <<seen, streamVars, getrlimit_fails, handle, cacheVars, threadVars, walkVars, cp>>

\* ------------------------------------ max_size, statement by statement
Threads == 1 .. NumThreads

\* if (stack_size == 0): the thread loads the static
Test(t) ==
  /\ ~halted
  /\ pc[t] = "start"
  /\ rl' = [rl EXCEPT ![t] = stack_size]
  /\ pc' = [pc EXCEPT ![t] = IF stack_size = 0 THEN "getrlimit" ELSE "return"]
  /\ early' = IF \A u \in Threads : pc[u] # "done" THEN early \cup {t} ELSE early
  /\ UNCHANGED <<seen, streamVars, envVars, cacheVars, rd, log, cursorVars, tret, writes>>

\* getrlimit(RLIMIT_STACK, &rl); on failure assert(false); exit(1)
Getrlimit(t) ==
  /\ ~halted
  /\ pc[t] = "getrlimit"
  /\ queries' = Bump(queries)
  /\ halted' = getrlimit_fails
  /\ rl' = [rl EXCEPT ![t] = IF getrlimit_fails THEN @ ELSE rlim_cur]
  /\ pc' = [pc EXCEPT ![t] = IF getrlimit_fails THEN "exit" ELSE "store"]
  /\ UNCHANGED <<seen, streamVars, envVars, stack_size, mem, first, last, rd, log, cursorVars, tret,
                 writes, early>>

\* stack_size = rl.rlim_cur
Store(t) ==
  /\ ~halted
  /\ pc[t] = "store"
  /\ stack_size' = rl[t]
  /\ writes' = writes \cup {rl[t]}
  /\ pc' = [pc EXCEPT ![t] = "return"]
  /\ UNCHANGED <<seen, streamVars, envVars, halted, mem, queries, first, last, rd, log, cursorVars,
                 rl, tret, early>>

\* return stack_size: the static is not synchronised, so the value returned
\* is the one the thread holds in a register or the one it loads again
Return(t) ==
  /\ ~halted
  /\ pc[t] = "return"
  /\ \E v \in {rl[t], stack_size} : tret' = [tret EXCEPT ![t] = v]
  /\ pc' = [pc EXCEPT ![t] = "done"]
  /\ UNCHANGED <<seen, streamVars, envVars, cacheVars, rd, log, cursorVars, rl, writes, early>>

\* ----------------------------------- operator<<(ostream&, stack::ips)
\* std::ios_base::fmtflags, the bits the model keeps
FmtFlags == {"skipws", "dec", "oct", "hex"}
\* std::ios_base::basefield
basefield == {"dec", "oct", "hex"}

\* fmtflags setf(fmtflags f, fmtflags mask): clears mask, sets f & mask
setf_mask(fl, f, mask) == (fl \ mask) \cup (f \cap mask)

\* fmtflags setf(fmtflags f): sets the bits of f, clears none
setf(fl, f) == fl \cup f

\* the standard libraries of the platforms that have __libc_stack_end
Libs == {"libstdc++", "libc++"}

Digit == <<"0", "1", "2", "3", "4", "5", "6", "7", "8", "9",
           "a", "b", "c", "d", "e", "f">>

\* the hexadecimal digits of n, most significant first
RECURSIVE HexDigits(_)
HexDigits(n) ==
  IF n < 16 THEN <<Digit[n + 1]>>
  ELSE HexDigits(n \div 16) \o <<Digit[(n % 16) + 1]>>

\* out << (void*) v : the characters of a pointer as the library prints it
\* (the base prefix always; a null pointer as 0 or as (nil))
FormatPointer(v, lib) ==
  IF v = 0
  THEN IF lib = "libstdc++" THEN <<"0">> ELSE <<"(", "n", "i", "l", ")">>
  ELSE <<"0", "x">> \o HexDigits(v)

\* the writes the sink accepts before it throws; -1: it never throws
Rooms == -1 .. MaxFail

Less(room) == IF room = -1 THEN -1 ELSE room - 1

\* for (auto v : ips) out << (void*) v << ' ' from cursor c on:
\* the set of <<process state after, characters written, thrown>>
RECURSIVE RenderLoop(_, _, _, _, _)
RenderLoop(c, ps, txt, room, lib) ==
  IF ~operator_ne(c, end) THEN {<<ps, txt, FALSE>>}
  ELSE IF room = 0 THEN {<<ps, txt, TRUE>>}
  ELSE LET t1 == txt \o FormatPointer(operator_deref_ip(c), lib) IN
    IF Less(room) = 0 THEN {<<ps, t1, TRUE>>}
    ELSE LET t2 == t1 \o <<" ">> IN
      UNION {IF r[1].halted THEN {<<r[1], t2, FALSE>>}
             ELSE RenderLoop(r[2], r[1], t2, Less(Less(room)), lib)
             : r \in operator_inc(c, ps)}

\* out.flags(f) by the owner of the stream
Flags ==
  /\ ~halted
  /\ \E f \in SUBSET FmtFlags : flags' = f
  /\ flagsBefore' = flags'
  /\ text' = <<>>
  /\ thrown' = FALSE
  /\ Ghost("flags", 0, iterator)
  /\ NoReturn
  /\ rd' = {}
  /\ log' = <<>>
  /\ UNCHANGED <<seen, envVars, cacheVars, threadVars, walkVars, cp>>

\* out << stack::ips(handle)
Render ==
  /\ ~halted
  /\ LET save == flags
         hexed == setf_mask(flags, {"hex"}, basefield) IN
       \E room \in Rooms, lib \in Libs :
         \E r \in RenderLoop(begin(handle), PS, <<>>, room, lib) :
           /\ Commit(r[1])
           /\ text' = r[2]
           /\ thrown' = r[3]
           /\ flags' = IF r[1].halted THEN hexed ELSE setf(hexed, save)
           /\ flagsBefore' = save
           /\ Ghost(OpName(r[1], "render"), 0, begin(handle))
  /\ NoReturn
  /\ UNCHANGED <<seen, envVars, threadVars, walkVars, cp>>

\* ------------------------------------------------------- specifications
\* a walk of the handle's chain
Next ==
  \/ Begin
  \/ Inc
  \/ SetRlimit

Spec == Init /\ [][Next]_vars

\* one walk, every ++ eventually made
NextWalk ==
  \/ Inc
  \/ SetRlimit

SpecWalk == Init /\ [][NextWalk]_vars /\ WF_vars(Inc)

\* the validator and the cached limit
NextLimit ==
  \/ MaxSize
  \/ IsValidFrame
  \/ SetRlimit

SpecLimit == Init /\ [][NextLimit]_vars

\* the operations of a cursor object, the soft limit left as the process
\* found it
NextOps ==
  \/ Copy
  \/ PostInc
  \/ AddAssign
  \/ Plus
  \/ End
  \/ Deref

SpecOps == Init /\ [][NextOps]_vars

\* threads in max_size
NextConc ==
  \/ \E t \in Threads : Test(t)
  \/ \E t \in Threads : Getrlimit(t)
  \/ \E t \in Threads : Store(t)
  \/ \E t \in Threads : Return(t)
  \/ SetRlimit

SpecConc == Init /\ [][NextConc]_vars

\* one walk of the handle's chain in a build with
\* SKIP_STACK_INTEGRITY_CHECK, the soft limit left as the process found it
NextSkip ==
  \/ IncSkip

SpecSkip == Init /\ [][NextSkip]_vars

\* advancing a copy of the handle's cursor with no checks
NextUnchecked ==
  \/ Copy
  \/ AdvanceUnchecked

SpecUnchecked == Init /\ [][NextUnchecked]_vars

\* rendering the handle's chain to a stream
NextRender ==
  \/ Flags
  \/ Render

SpecRender == Init /\ [][NextRender]_vars

\* ================================================================ claims
\* the limit max_size returns in this state
Limit == IF stack_size # 0 THEN stack_size ELSE rlim_cur

\* the stack region [stackEnd - limit, stackEnd], in unbounded integers
InRegion(a, limit) == StackEnd - limit <= a /\ a <= StackEnd

\* a cursor other than end()
Yielded(c) == operator_ne(c, iterator)

\* C1: from every cursor and over every content of memory the checked walk
\* reaches end() after finitely many ++ (unless a failed limit query has
\* ended the process): it never loops forever.
C1_WalkTerminates == <>(halted \/ operator_eq(it, iterator))

\* a walk that ran into a frame whose parent is the frame itself, and ended
C1_Witness ==
  /\ op = "inc"
  /\ operator_eq(it, iterator)
  /\ pre.fp # 0
  /\ mem[pre.fp] # Unread
  /\ mem[pre.fp].up = pre.fp

\* C2: every ++ that does not produce end() moves fp to a strictly higher
\* address, so no frame address is yielded twice; and a frame whose parent
\* is at an equal or lower address is the last element: the next ++ yields
\* end().
C2_Monotone ==
  /\ \A i \in 1 .. Len(trail) - 1 :
       Yielded(trail[i + 1]) => trail[i + 1].fp > trail[i].fp
  /\ \A i, j \in 1 .. Len(trail) :
       i < j /\ Yielded(trail[i]) /\ Yielded(trail[j])
         => trail[i].fp # trail[j].fp
  /\ (op = "inc" /\ pre.fp # 0 /\ mem[pre.fp] # Unread
        /\ mem[pre.fp].up <= pre.fp) => operator_eq(it, iterator)

\* two frames were yielded after the handle's, then a parent not above its
\* frame ended the walk
C2_Witness ==
  /\ op = "inc"
  /\ Len(trail) = 4
  /\ operator_eq(it, iterator)
  /\ mem[pre.fp] # Unread
  /\ mem[pre.fp].up <= pre.fp
  /\ mem[pre.fp].up # 0

\* C3: ++ on a cursor whose fp is null yields (null, null), whatever its ip,
\* so ++ on end() stays at end(); and end() is the only cursor ++ maps to
\* itself.
C3_EndAbsorbing ==
  op = "inc" =>
    /\ pre.fp = 0 => (it.fp = 0 /\ it.ip = 0)
    /\ operator_eq(it, pre) => (pre.fp = 0 /\ pre.ip = 0)

\* ++ was applied to the cursor (null, ip) with ip not null
C3_Witness == op = "inc" /\ pre.fp = 0 /\ pre.ip # 0 /\ it.fp = 0 /\ it.ip = 0

NullDescriptor == [fp |-> 0, ip |-> 0]

\* C4: every result of end() is the cursor (null, null), so any two compare
\* equal; operator* of an end cursor returns the all-null descriptor (a null
\* ip in the ip view), reads no stack memory and leaves the cursor as it was.
C4_EndConstant ==
  /\ op = "end" =>
       /\ operator_eq(res, iterator)
       /\ is_end(res)
       /\ out = NullDescriptor
       /\ ipout = 0
       /\ rd = {}
  /\ (op = "deref" /\ operator_eq(pre, iterator)) =>
       /\ out = NullDescriptor
       /\ ipout = 0
       /\ rd = {}
       /\ cp = pre

\* end() was called after the cursor had left the handle's frame for another
C4_Witness == op = "end" /\ Yielded(cp) /\ operator_ne(cp, it) /\ res = iterator

\* C5: an address outside the stack region is not a valid frame; when the
\* handle's frame pointer is outside it, the walk from begin() yields the
\* handle's descriptor alone: the first ++ produces end() and reads no link.
C5_Boundary ==
  /\ (~halted /\ ~(getrlimit_fails /\ stack_size = 0)) =>
       \A a \in Word : ~InRegion(a, Limit) => ~is_valid_frame(a, PS)[2]
  /\ (op = "inc" /\ Len(trail) = 2 /\ handle.fp # 0
        /\ ~InRegion(handle.fp, Limit))
       => (trail = <<begin(handle), iterator>> /\ rd = {})

\* the handle's frame pointer lies below the region of a finite limit
C5_Witness ==
  /\ op = "inc"
  /\ Len(trail) = 2
  /\ handle.fp # 0
  /\ handle.fp < StackEnd - Limit
  /\ operator_eq(it, iterator)

\* C6: a copy compares equal to its original; advancing the copy by post-++,
\* += or + leaves the original as it was; post-++ returns the cursor held
\* before the advance, and + leaves its left operand unchanged.
C6_ValueSemantics ==
  /\ [](/\ op = "copy" => (operator_eq(cp, it) /\ cp = pre)
        /\ op = "postinc" => res = pre
        /\ op = "plus" => cp = pre)
  /\ [][op' \in {"postinc", "addassign", "plus"} => it' = it]_vars

\* post-++ moved the copy to the parent frame and returned the frame it left
C6_Witness ==
  /\ op = "postinc"
  /\ Yielded(cp)
  /\ res = pre
  /\ operator_eq(res, it)
  /\ operator_ne(cp, it)

\* C7: begin() returns the captured (fp, ip) however many cursors were
\* advanced before, and two walks from the same handle over unchanged memory
\* yield the same sequence.
C7_RestartableBegin ==
  /\ op = "begin" => operator_deref(it) = top(handle)
  /\ \A i \in 1 .. Len(trail) : i <= Len(prevWalk) => trail[i] = prevWalk[i]

\* applying ++ k times, one application after the other
RECURSIVE IncTimes(_, _)
IncTimes(S, k) ==
  IF k = 0 THEN S
  ELSE IncTimes(UNION {operator_inc(x[2], x[1]) : x \in S}, k - 1)

\* C8: c += k and c + k produce the cursor k applications of the checked ++
\* produce (k in 0 .. MaxK); k = 0 leaves c unchanged and advancing end()
\* stays at end().
C8_AdvanceByK ==
  /\ op = "addassign" => {x[2] : x \in IncTimes({<<PS, pre>>}, arg)} = {cp}
  /\ op = "plus" => {x[2] : x \in IncTimes({<<PS, pre>>}, arg)} = {res}
  /\ (op = "addassign" /\ arg = 0) => cp = pre
  /\ (op = "addassign" /\ operator_eq(pre, iterator)) => cp = iterator

\* += 2 went over two links to a frame that is not end()
C8_Witness == op = "addassign" /\ arg = 2 /\ Yielded(cp) /\ cp.fp >= pre.fp + 2

\* C9: getrlimit is queried by the first max_size call only, and every later
\* call returns the value of that first query.
C9_QueriedOnce == queries <= 1 /\ (first # -1 => last = first)

\* C10: the threads that entered max_size before any call returned all get
\* the same value, and the cache is only ever written with one value.
C10_ThreadsAgree ==
  /\ \A t, u \in early :
       (tret[t] # -1 /\ tret[u] # -1) => tret[t] = tret[u]
  /\ early = Threads => Cardinality(writes) <= 1

\* C11: two calls of is_valid_frame with the same p return the same result,
\* whatever calls of max_size and is_valid_frame and whatever changes of the
\* soft limit came between them.
C11_SameVerdict ==
  (op = "is_valid_frame" /\ seen # <<>> /\ seen[1] = arg) => vret = seen[2]

\* C12: a failing getrlimit ends the process inside max_size: max_size
\* returns no value and the cache stays unpopulated, the ++ that asked for
\* the limit leaves its cursor where it was and reads no link, and the only
\* verdicts produced in such a process are those that need no limit.
C12_FailureHalts ==
  /\ halted <=> (getrlimit_fails /\ queries > 0)
  /\ getrlimit_fails => (stack_size = 0 /\ first = -1 /\ last = -1)
  /\ halted => (op = "exit" /\ it = pre /\ rd = {} /\ vret = FALSE)
  /\ (getrlimit_fails /\ op = "inc") =>
       /\ pre.fp = 0 \/ frame_offset(pre.fp) > 0
       /\ operator_eq(it, iterator)

\* ++ on a frame at or below __libc_stack_end asked for the limit and the
\* process exited
C12_Witness ==
  /\ halted
  /\ op = "exit"
  /\ pre.fp # 0
  /\ frame_offset(pre.fp) <= 0
  /\ it = pre

\* C13: when operator<< has finished, by returning or by an exception, the
\* stream has the format flags it had when the operator was entered.
C13_FlagsRestored == op = "render" => flags = flagsBefore

\* the addresses the ip view yields from cursor c up to, excluding, end()
RECURSIVE IpsFrom(_, _)
IpsFrom(c, ps) ==
  IF operator_eq(c, end) THEN {<<>>}
  ELSE UNION {{<<operator_deref_ip(c)>> \o w : w \in IpsFrom(r[2], r[1])}
              : r \in operator_inc(c, ps)}

\* the addresses of w as bare hexadecimal numbers, one space after each
RECURSIVE PlainText(_)
PlainText(w) ==
  IF w = <<>> THEN <<>>
  ELSE HexDigits(Head(w)) \o <<" ">> \o PlainText(Tail(w))

\* C14: operator<< writes the addresses the ip view yields, in walk order,
\* as bare hexadecimal numbers each followed by one space and nothing else:
\* nothing for an empty walk, "1 2 3 " for the addresses 1, 2, 3.
C14_RenderedText ==
  (op = "render" /\ ~thrown) =>
    \A w \in IpsFrom(begin(handle), PS) : text = PlainText(w)

\* C15: ++ on a cursor with a non-null fp yields (fp->up, fp->ret) exactly
\* when is_valid_frame(fp), is_valid_frame(fp->up) and fp->up > fp all hold,
\* and the one cursor (null, null) when any of the three fails.
C15_Transition ==
  (op = "inc" /\ pre.fp # 0) =>
    LET l == mem[pre.fp]
        ok == /\ is_valid_frame(pre.fp, PS)[2]
              /\ l # Unread
              /\ is_valid_frame(l.up, PS)[2]
              /\ l.up > pre.fp
    IN /\ is_valid_frame(pre.fp, PS)[2] => l # Unread
       /\ it = IF ok THEN [fp |-> l.up, ip |-> l.ret] ELSE [fp |-> 0, ip |-> 0]

\* a ++ that moved to the parent frame and took the return address stored
\* in the frame it left, which is not the ip the cursor had
C15_Witness ==
  /\ op = "inc"
  /\ pre.fp # 0
  /\ it.fp = mem[pre.fp].up
  /\ it.fp > pre.fp
  /\ it.ip = mem[pre.fp].ret
  /\ it.ip # pre.ip

\* the cursor the last advance produced
Advanced == IF op = "plus" THEN res ELSE cp

\* C16: in every checked advance (post-++, += k, + k) a link record is read
\* only right after is_valid_frame returned true for its address; an advance
\* from a null fp or from an fp the validator rejects reads nothing and
\* leaves the cursor at end(); and a single step reads no record but the
\* one at fp, so the parent is validated but not dereferenced.
C16_ValidatedReads ==
  op \in {"postinc", "addassign", "plus"} =>
    /\ \A i \in 1 .. Len(log) :
         log[i].e = "read" =>
           (i > 1 /\ log[i - 1] = [e |-> "valid", a |-> log[i].a, v |-> TRUE])
    /\ rd = {log[i].a : i \in {j \in 1 .. Len(log) : log[j].e = "read"}}
    /\ (op = "postinc" \/ arg = 1) => rd \subseteq {pre.fp}
    /\ ((op = "postinc" \/ arg >= 1)
          /\ (pre.fp = 0 \/ ~is_valid_frame(pre.fp, PS)[2]))
         => (rd = {} /\ Advanced = iterator)

\* += 2 read two link records, each after its address was validated
C16_Witness ==
  /\ op = "addassign"
  /\ arg = 2
  /\ Cardinality(rd) = 2
  /\ Len(log) >= 6
  /\ Yielded(cp)

\* C17: for every address and every limit a size_t holds, RLIM_INFINITY
\* included, is_valid_frame(fp) is true exactly when, in unbounded integers,
\* fp - stackEnd <= 0 and fp - stackEnd >= -limit.
C17_ExactFormula ==
  op = "is_valid_frame" =>
    (vret <=> (arg - StackEnd <= 0 /\ arg - StackEnd >= 0 - Limit))

\* the addresses the links read so far lead to from address a, a included
RECURSIVE Chain(_, _)
Chain(S, n) ==
  LET T == S \cup {mem[a].up : a \in {b \in S : b # 0 /\ mem[b] # Unread}} IN
    IF n = 0 \/ T = S THEN S ELSE Chain(T, n - 1)

\* the cursor is on a chain that stays in bounds for ever: every frame the
\* links lead to is not null, has been read and passes the validator, so
\* the chain closes on itself through a self-loop or a backward link
InBoundsLoop ==
  /\ ~halted
  /\ \A a \in Chain({it.fp}, WordSize) :
       /\ a # 0
       /\ mem[a] # Unread
       /\ is_valid_frame(a, PS)[2]
  /\ \E a \in Chain({it.fp}, WordSize) : mem[a].up <= a

\* C18: in the build with SKIP_STACK_INTEGRITY_CHECK ++ moves to the parent
\* of every frame that passes the validator, whatever the parent is, so a
\* walk that is on a chain staying in bounds and closed by a self-loop or a
\* backward link never reaches end(): it stays on that chain at every
\* further ++.
C18_SkipLoops ==
  /\ [](InBoundsLoop => (operator_ne(it, end) /\ ~is_end(it)))
  /\ [][InBoundsLoop => InBoundsLoop']_vars
  /\ [][(op' = "inc" /\ it.fp # 0 /\ is_valid_frame(it.fp, PS')[2])
          => it' = [fp |-> mem'[it.fp].up, ip |-> mem'[it.fp].ret]]_vars

\* the walk came back to a frame it had yielded before
C18_Witness ==
  /\ op = "inc"
  /\ InBoundsLoop
  /\ \E i, j \in 1 .. Len(trail) :
       /\ i + 1 < j
       /\ trail[i].fp = trail[j].fp
       /\ trail[i + 1].fp < trail[i].fp

\* C19: for the cursor begin() returns and for every cursor a number of
\* checked ++ make of it, is_end() is true exactly when the cursor compares
\* equal to end().
C19_EndTestsAgree == is_end(it) <=> operator_eq(it, end)

\* C20: when each of the k checked ++ from a cursor succeeds,
\* advance_unchecked(k) leaves the cursor those k checked ++ produce;
\* advance_unchecked(0) leaves the cursor as it was and reads no memory.
C20_UncheckedRefines ==
  op = "advance_unchecked" =>
    LET S == IncTimes({<<PS, pre>>}, arg) IN
      /\ (\A x \in S : ~x[1].halted /\ (arg > 0 => Yielded(x[2])))
           => (\A x \in S : x[2] = cp)
      /\ arg = 0 => (cp = pre /\ rd = {} /\ log = <<>>)

\* advance_unchecked(2) went over two links that two checked ++ follow
C20_Witness ==
  /\ op = "advance_unchecked"
  /\ arg = 2
  /\ \A x \in IncTimes({<<PS, pre>>}, 2) : ~x[1].halted /\ x[2] = cp
  /\ Yielded(cp)
  /\ cp.fp >= pre.fp + 2
  /\ cp.ip # pre.ip
====
